---- MODULE Spec2Model ----
(***************************************************************************)
(* Credential lifecycle of the LoFi Pi Spotify controller.                 *)
(*                                                                         *)
(* The model follows src/spotify_api.py (SpotifyAPI), with the credential, *)
(* backup and session files as shared durable state and the provider as a  *)
(* nondeterministic responder.  A thread runs the methods of SpotifyAPI as  *)
(* a small-step machine: one step runs the code from one provider request  *)
(* to the next, and the provider's answer is chosen in the step that reads  *)
(* it.  The refresh request is split into the sending and the receiving     *)
(* step, so that requests in flight are part of the state.                 *)
(*                                                                         *)
(* Time is the wall clock in seconds.  backup_time and last_update, which  *)
(* the code writes and never reads, are left out of the file records.      *)
(***************************************************************************)
EXTENDS Integers, Sequences, FiniteSets, TLC

----------------------------------------------------------------------------
\* Program constants

\* refresh 5 minutes early (authenticate)
AuthMargin == 300
\* "Don't retry too frequently": seconds since last_successful_auth
ReauthCooldown == 300
\* self.max_auth_retries
max_auth_retries == 3
\* max_retries of _enhanced_token_refresh
max_retries == 3
\* retry_delay of _enhanced_token_refresh, in seconds
retry_delay == 2
\* token_data.get("expires_in", 3600)
DefaultExpiresIn == 3600
\* run_without_spotify (main.py): "if retry_count % 2400 == 0", and its
\* max_retries
RetryPeriod == 2400
run_max_retries == 10
\* TokenMonitor: "Check if token expires in the next 10 minutes"
MonitorMargin == 600
\* AutoTokenManager.check_interval and refresh_early_seconds
check_interval == 300
refresh_early_seconds == 600
\* run_continuous: "if self.consecutive_failures > 3", and the factor of
\* "sleep_time = self.check_interval * 2"
FailureThreshold == 3
BackoffFactor == 2

----------------------------------------------------------------------------
\* Bounds of the model

\* the clock advances in steps of TimeStep seconds
TimeStep == 300
\* the clock's first value
StartTime == 900
\* number of clock steps explored
MaxTicks == 2
\* lifetime left, at StartTime, of the credential stored at the start
InitLifetime == 600
\* authenticate is not started with auth_retry_count above this
MaxRetryCount == 4
\* number of top-level calls in one behaviour
MaxCalls == 2
\* the count of a call's provider requests stops here
MaxCounted == 20
\* number of checks the token manager runs
MaxChecks == 5
\* number of credentials the external actor writes
MaxExternalWrites == 1

None == "none"
\* the stored credential's tokens, and the tokens the provider issues
AccessTokens == {"A1", "A2"}
RefreshTokens == {"R1", "R2"}
IssuedAccessTokens == {"A2"}
IssuedRefreshTokens == {"R2"}
\* access tokens of the client-credentials grant
LimitedTokens == {"L1"}
Devices == {"D1"}

\* the threads of the player process (main.py), which share its SpotifyAPI
\* object
PlayerThreads == {"main", "worker"}
\* the player's threads, the token monitor process (token_monitor.py) and the
\* token manager process (auto_token_manager.py)
Threads == PlayerThreads \cup {"monitor", "manager"}
\* the SpotifyAPI objects: the player's, the one TokenMonitor.refresh_token
\* builds, and AutoTokenManager.spotify
Instances == {"player", "monitor", "manager"}
InstOf(t) == IF t \in PlayerThreads THEN "player" ELSE t

----------------------------------------------------------------------------
VARIABLES
  now,          \* time.time()
  diskOk,       \* whether a file write succeeds
  tokenFile,    \* spotify_tokens.json
  backupFile,   \* spotify_tokens_backup.json
  sessionFile,  \* spotify_session.json
  mem,          \* the fields of each SpotifyAPI object
  pc,           \* each thread's position
  stk,          \* each thread's return positions
  ret,          \* the value returned by the call a thread last finished
  att,          \* attempt, the loop variable of _enhanced_token_refresh
  sent,         \* the refresh token of the thread's refresh request in flight
  mrRes,        \* the value returned by _make_request
  h,            \* per thread: what the running top-level call has done so far
  calls,        \* number of top-level calls started
  noticeFile,   \* whether auth_failure_notice.txt exists
  mgr,          \* AutoTokenManager: consecutive_failures, sleep_time, checks
  extWrites,    \* number of credentials written by headless_spotify_auth.py
  exitCode,     \* the exit status of a service's command, None while it runs
  printed,      \* the status that "--status" printed
  limited       \* run_without_spotify: retry_count, and the authenticate calls

vars == <<now, diskOk, tokenFile, backupFile, sessionFile, mem, pc, stk, ret,
          att, sent, mrRes, h, calls, noticeFile, mgr, extWrites, exitCode,
          printed, limited>>
filesV == <<tokenFile, backupFile, sessionFile>>
\* the state of the monitor and manager services and of the external actor
svcV == <<noticeFile, mgr, extWrites, exitCode, printed, limited>>
\* what no method of SpotifyAPI changes
envV == <<now, diskOk, calls, svcV>>

----------------------------------------------------------------------------
\* Files

NoTokens == [st |-> "missing", at |-> None, rt |-> None, exp |-> 0]
CorruptTokens == [st |-> "corrupt", at |-> None, rt |-> None, exp |-> 0]
Tokens(a, r, e) == [st |-> "ok", at |-> a, rt |-> r, exp |-> e]

NoSession == [st |-> "missing", dev |-> None, lsa |-> 0, cnt |-> 0]
CorruptSession == [st |-> "corrupt", dev |-> None, lsa |-> 0, cnt |-> 0]

\* open(path, "w") followed by json.dump: the new record when the write
\* succeeds; when it fails the old file is left, or a truncated one
Written(old, new, corrupt) == IF diskOk THEN {new} ELSE {old, corrupt}

\* SpotifyAPI.__init__
NewSpotifyAPI == [at |-> None, rt |-> None, exp |-> 0,
                  dev |-> None, lsa |-> 0, cnt |-> 0]

\* _load_session_data: a missing file is skipped, an unreadable one is
\* caught and logged
load_session_data(m) ==
  IF sessionFile.st = "ok"
    THEN [m EXCEPT !.dev = sessionFile.dev, !.lsa = sessionFile.lsa,
                   !.cnt = sessionFile.cnt]
    ELSE m

\* _save_session_data: the record written from the object's fields
SessionOf(m) == [st |-> "ok", dev |-> m.dev, lsa |-> m.lsa, cnt |-> m.cnt]
save_session_data(m) == Written(sessionFile, SessionOf(m), CorruptSession)

\* _save_backup_tokens: only with an access token and a refresh token
save_backup_tokens(m) ==
  IF m.at # None /\ m.rt # None
    THEN Written(backupFile, Tokens(m.at, m.rt, m.exp), CorruptTokens)
    ELSE {backupFile}

----------------------------------------------------------------------------
\* The provider's answers

\* token endpoint, grant_type=refresh_token: 200 with a new access token and
\* possibly a new refresh token, 400, a 5xx status, or no answer (code 0)
RefreshResponses ==
  {[code |-> 200, at |-> a, rt |-> r, ein |-> DefaultExpiresIn] :
      a \in IssuedAccessTokens, r \in IssuedRefreshTokens \cup {None}}
  \cup {[code |-> c, at |-> None, rt |-> None, ein |-> 0] : c \in {400, 503, 0}}

\* token endpoint, grant_type=client_credentials
GrantResponses ==
  {[code |-> 200, at |-> a, ein |-> DefaultExpiresIn] : a \in LimitedTokens}
  \cup {[code |-> c, at |-> None, ein |-> 0] : c \in {400, 0}}

\* GET /me with the access token: the status, 0 for no answer
ProbeResponses == {200, 401, 0}

\* a resource endpoint: 401, another error status, no answer, 204, or 200
\* with a body (no devices, devices none of them active, an active device)
ApiResponses == {"401", "error", "neterr", "empty", "nodev", "inactive", "active"}

\* what _make_request returns for an answer that is not followed by a refresh
ApiResult(resp) ==
  IF resp \in {"401", "error", "neterr"} THEN "none" ELSE resp

----------------------------------------------------------------------------
\* History of the running top-level call

NewHistory(op) ==
  [op |-> op,            \* the top-level call
   nRat |-> 0,           \* calls of refresh_access_token
   nApi |-> 0,           \* requests sent by _make_request
   dead |-> {},          \* refresh tokens the provider answered with 400
   bk |-> "none", cc |-> "none", dd |-> "none",   \* the recovery strategies
   rq |-> 0,             \* requests of the running refresh operation
   rqToks |-> {},        \* the refresh tokens they carried
   rqKinds |-> {},       \* the answers they got
   lastRef |-> "none",   \* how the last refresh operation ended
   lastRet |-> FALSE,    \* and what it returned
   heldRt |-> None,      \* the refresh token held when the last 200 arrived
   respRt |-> None,      \* the refresh token of that response, None without
   respAt |-> None,      \* its access token
   respEin |-> 0,        \* its expires_in
   respTime |-> 0,       \* time.time() when it was read
   due |-> FALSE,        \* the stored credential was within the margin
   primaryOk |-> FALSE,  \* authenticate found a readable token file
   backupOk |-> FALSE,   \* ... and a readable backup file
   open |-> FALSE,       \* ... past the cooldown, with retries left
   writable |-> FALSE,   \* ... and a file system that accepts writes
   cause |-> "none",     \* lastRef when _attempt_automatic_reauth started
   chain |-> "none",     \* _attempt_automatic_reauth: refused, run, ok, exhausted
   bkProbe |-> "none",   \* the liveness probe of the backup's access token
   notice0 |-> FALSE,    \* a service's check began with the notice present
   fresh0 |-> FALSE,     \* ... and a stored credential more than 600 s from expiry
   probe |-> "none",     \* the test of the stored access token
   unauth |-> FALSE,     \* _make_request was answered 401
   delay |-> 0,          \* seconds slept before the refresh request in flight
   unauth2 |-> FALSE,    \* ... and so was the request sent again
   metered |-> FALSE,    \* the call's provider requests are counted
   nReq |-> 0]           \* ... and their number: token endpoint, probes, API

\* the count after one more provider request
Sent(started) ==
  IF started.metered /\ started.nReq < MaxCounted
    THEN started.nReq + 1
    ELSE started.nReq

\* before run_without_spotify: count is its retry_count, attempts the number
\* of authenticate calls it has made
NoLimitedMode == [count |-> 0, attempts |-> 0]

\* AutoTokenManager.__init__: fails is consecutive_failures, sleep the
\* sleep_time run_continuous last chose (0 before the first check), failed
\* the number of checks in a row that returned False, checks the number of
\* checks started, running is self.running, and sigInCall tells that the
\* shutdown signal arrived while a refresh request was in flight
NewAutoTokenManager ==
  [fails |-> 0, sleep |-> 0, failed |-> 0, checks |-> 0,
   running |-> TRUE, sigInCall |-> FALSE]

----------------------------------------------------------------------------
Init ==
  /\ now = StartTime
  /\ diskOk = TRUE
  /\ tokenFile \in {NoTokens, CorruptTokens,
                    Tokens("A1", "R1", StartTime + InitLifetime)}
  /\ backupFile \in {NoTokens, Tokens("A1", "R1", StartTime + InitLifetime)}
  /\ sessionFile \in {NoSession,
                      [st |-> "ok", dev |-> None, lsa |-> StartTime, cnt |-> 0]}
  /\ mem = [i \in Instances |-> NewSpotifyAPI]
  /\ pc = [t \in Threads |-> "idle"]
  /\ stk = [t \in Threads |-> <<>>]
  /\ ret = [t \in Threads |-> FALSE]
  /\ att = [t \in Threads |-> 0]
  /\ sent = [t \in Threads |-> None]
  /\ mrRes = [t \in Threads |-> "none"]
  /\ h = [t \in Threads |-> NewHistory("none")]
  /\ calls = 0
  /\ noticeFile = FALSE
  /\ mgr = NewAutoTokenManager
  /\ extWrites = 0
  /\ exitCode = [t \in Threads |-> None]
  /\ printed = None
  /\ limited = NoLimitedMode

----------------------------------------------------------------------------
\* Control

Goto(t, l) == pc' = [pc EXCEPT ![t] = l]

Call(t, entry, back) ==
  /\ pc' = [pc EXCEPT ![t] = entry]
  /\ stk' = [stk EXCEPT ![t] = <<back>> \o @]

Return(t, v) ==
  /\ pc' = [pc EXCEPT ![t] = Head(stk[t])]
  /\ stk' = [stk EXCEPT ![t] = Tail(@)]
  /\ ret' = [ret EXCEPT ![t] = v]

Idle == \A t \in Threads : pc[t] = "idle"

----------------------------------------------------------------------------
\* refresh_access_token and _enhanced_token_refresh


\* a refresh that takes the response's refresh token whether it has one or not
RotatedRefreshToken_dropped(held, resp) == resp.rt

\* "if 'refresh_token' in token_data": the response's refresh token when it
\* has one, the held one otherwise
RotatedRefreshToken(held, resp) == IF resp.rt # None THEN resp.rt ELSE held


\* a retry loop that runs one pass too many
LastAttempt_late(a) == a = max_retries

\* "if attempt == max_retries - 1: return False"
LastAttempt(a) == a = max_retries - 1

\* an expiry that is the response's expires_in itself
ExpiresAt_relative(resp) == resp.ein

\* "self.token_expires_at = time.time() + expires_in"
ExpiresAt(resp) == now + resp.ein

\* "if attempt > 0: time.sleep(retry_delay * attempt)": the seconds slept at
\* the start of pass number attempt.  The clock of the model does not
\* resolve these seconds.
RetryDelay(attempt) == IF attempt > 0 THEN retry_delay * attempt ELSE 0

\* how a response counts: ok, perm (400), trans (another status, no answer)
ResponseKind(resp) ==
  IF resp.code = 200 THEN "ok" ELSE IF resp.code = 400 THEN "perm" ELSE "trans"

\* refresh_access_token: without a refresh token _handle_auth_failure and
\* _device_code_auth print and return False; otherwise _enhanced_token_refresh
\* starts with attempt 0
refresh_access_token(t) ==
  /\ pc[t] = "refresh_access_token"
  /\ IF mem[InstOf(t)].rt = None
       THEN /\ Return(t, FALSE)
            /\ h' = [h EXCEPT ![t].nRat = @ + 1, ![t].lastRef = "norefresh",
                              ![t].lastRet = FALSE, ![t].rq = 0]
            /\ UNCHANGED att
       ELSE /\ Goto(t, "enhanced_token_refresh_send")
            /\ att' = [att EXCEPT ![t] = 0]
            /\ h' = [h EXCEPT ![t].nRat = @ + 1, ![t].lastRef = "running",
                              ![t].rq = 0]
            /\ UNCHANGED <<stk, ret>>
  /\ UNCHANGED <<envV, filesV, mem, sent, mrRes>>

\* one pass of the retry loop up to self.session.post: after the first pass
\* the thread sleeps, then the request carries the refresh token the object
\* holds now
enhanced_token_refresh_send(t) ==
  /\ pc[t] = "enhanced_token_refresh_send"
  /\ sent' = [sent EXCEPT ![t] = mem[InstOf(t)].rt]
  /\ h' = [h EXCEPT ![t].rq = @ + 1,
                    ![t].rqToks = @ \cup {mem[InstOf(t)].rt},
                    ![t].delay = RetryDelay(att[t]),
                    ![t].nReq = Sent(h[t])]
  /\ Goto(t, "enhanced_token_refresh_recv")
  /\ UNCHANGED <<envV, filesV, mem, stk, ret, att, mrRes>>

\* the rest of the pass: the response is read.
\*   200: the fields are set, the token file is written, then the session
\*        data; a failed write of the token file is an "unexpected error"
\*        of the pass
\*   400: return False
\*   otherwise (also an exception): return False on the last attempt, else
\*        the next pass
\* A False of _enhanced_token_refresh is returned by refresh_access_token
\* through _handle_auth_failure.
enhanced_token_refresh_recv(t) ==
  /\ pc[t] = "enhanced_token_refresh_recv"
  /\ \E resp \in RefreshResponses :
       LET i == InstOf(t)
           m1 == [mem[i] EXCEPT !.at = resp.at,
                                !.rt = RotatedRefreshToken(@, resp),
                                !.exp = ExpiresAt(resp)]
           m2 == [m1 EXCEPT !.cnt = 0, !.lsa = now]
           kinds == h[t].rqKinds \cup
                      {IF resp.code = 200 /\ ~diskOk THEN "disk"
                                                     ELSE ResponseKind(resp)}
           seen == [h[t] EXCEPT !.rqKinds = kinds,
                      !.heldRt = IF resp.code = 200 THEN mem[i].rt ELSE @,
                      !.respRt = IF resp.code = 200 THEN resp.rt ELSE @,
                      !.respAt = IF resp.code = 200 THEN resp.at ELSE @,
                      !.respEin = IF resp.code = 200 THEN resp.ein ELSE @,
                      !.respTime = IF resp.code = 200 THEN now ELSE @]
           ended(v, how) ==
                    /\ Return(t, v)
                    /\ att' = [att EXCEPT ![t] = 0]
                    /\ h' = [h EXCEPT ![t] = [seen EXCEPT
                               !.lastRef = how, !.lastRet = v,
                               !.rq = 0, !.rqToks = {}, !.rqKinds = {},
                               !.delay = 0,
                               !.dead = IF resp.code = 400
                                          THEN @ \cup {sent[t]} ELSE @]]
           again == /\ Goto(t, "enhanced_token_refresh_send")
                    /\ att' = [att EXCEPT ![t] = @ + 1]
                    /\ h' = [h EXCEPT ![t] = seen]
                    /\ UNCHANGED <<stk, ret>>
       IN
       /\ sent' = [sent EXCEPT ![t] = None]
       /\ IF resp.code = 200 /\ diskOk
            THEN /\ mem' = [mem EXCEPT ![i] = m2]
                 /\ tokenFile' = Tokens(m1.at, m1.rt, m1.exp)
                 /\ sessionFile' = SessionOf(m2)
                 /\ ended(TRUE, "ok")
          ELSE IF resp.code = 200
            THEN /\ mem' = [mem EXCEPT ![i] = m1]
                 /\ tokenFile' \in {tokenFile, CorruptTokens}
                 /\ UNCHANGED sessionFile
                 /\ IF LastAttempt(att[t]) THEN ended(FALSE, "disk") ELSE again
          ELSE IF resp.code = 400
            THEN /\ ended(FALSE, "perm")
                 /\ UNCHANGED <<mem, tokenFile, sessionFile>>
          ELSE /\ UNCHANGED <<mem, tokenFile, sessionFile>>
               /\ IF LastAttempt(att[t])
                    THEN ended(FALSE, IF kinds = {"trans"} THEN "trans" ELSE "disk")
                    ELSE again
  /\ UNCHANGED <<envV, backupFile, mrRes>>

----------------------------------------------------------------------------
\* _make_request

\* a _make_request that refreshes after a 401 only when the cached expiry
\* is within the margin
RefreshOn401_when_due(m) == now > m.exp - AuthMargin

\* "if response.status_code == 401:" is the whole condition of the refresh:
\* token_expires_at is not read
RefreshOn401(m) == TRUE

\* up to the first response.  Without an access token the method raises
\* before it sends anything; a 401 leads to refresh_access_token.
make_request(t) ==
  /\ pc[t] = "make_request"
  /\ IF mem[InstOf(t)].at = None
       THEN /\ mrRes' = [mrRes EXCEPT ![t] = "raise"]
            /\ Return(t, FALSE)
            /\ UNCHANGED h
       ELSE \E resp \in ApiResponses :
              /\ h' = [h EXCEPT ![t].nApi = @ + 1,
                                ![t].unauth = @ \/ resp = "401",
                                ![t].nReq = Sent(h[t])]
              /\ IF resp = "401" /\ RefreshOn401(mem[InstOf(t)])
                   THEN /\ Call(t, "refresh_access_token",
                                "make_request_after_refresh")
                        /\ UNCHANGED <<mrRes, ret>>
                   ELSE /\ mrRes' = [mrRes EXCEPT ![t] = ApiResult(resp)]
                        /\ Return(t, ApiResult(resp) # "none")
  /\ UNCHANGED <<envV, filesV, mem, att, sent>>

\* a request sent again whatever the refresh returned
ResendAfterRefresh_always(ok) == TRUE

\* "if self.refresh_access_token():"
ResendAfterRefresh(ok) == ok

\* after the refresh: the request is sent again when the refresh returned
\* True; the 401 stands otherwise
make_request_after_refresh(t) ==
  /\ pc[t] = "make_request_after_refresh"
  /\ IF ResendAfterRefresh(ret[t])
       THEN \E resp \in ApiResponses :
              /\ h' = [h EXCEPT ![t].nApi = @ + 1, ![t].nReq = Sent(h[t]),
                                ![t].unauth2 = (resp = "401")]
              /\ mrRes' = [mrRes EXCEPT ![t] = ApiResult(resp)]
              /\ Return(t, ApiResult(resp) # "none")
       ELSE /\ mrRes' = [mrRes EXCEPT ![t] = "none"]
            /\ Return(t, FALSE)
            /\ UNCHANGED h
  /\ UNCHANGED <<envV, filesV, mem, att, sent>>

----------------------------------------------------------------------------
\* authenticate

\* "if time.time() > (self.token_expires_at - 300)"
NeedsRefresh(m) == now > m.exp - AuthMargin

\* authenticate up to the first provider request: the session data and the
\* token file are loaded, the backup is saved, and the expiry decides between
\* a refresh and the token test.  A missing token file, and an exception
\* while it is read, lead to _attempt_automatic_reauth.
authenticate(t) ==
  /\ pc[t] = "authenticate"
  /\ LET i == InstOf(t)
         m0 == load_session_data(mem[i])
         m1 == [m0 EXCEPT !.at = tokenFile.at, !.rt = tokenFile.rt,
                          !.exp = tokenFile.exp]
         found == [h[t] EXCEPT
                    !.primaryOk = (tokenFile.st = "ok"),
                    !.backupOk = (backupFile.st = "ok"),
                    !.open = /\ now - m0.lsa >= ReauthCooldown
                             /\ m0.cnt < max_auth_retries,
                    !.writable = diskOk]
     IN
     IF tokenFile.st # "ok"
       THEN /\ mem' = [mem EXCEPT ![i] = m0]
            /\ Goto(t, "attempt_automatic_reauth")
            /\ h' = [h EXCEPT ![t] = found]
            /\ UNCHANGED <<backupFile, stk>>
       ELSE /\ mem' = [mem EXCEPT ![i] = m1]
            /\ backupFile' \in save_backup_tokens(m1)
            /\ h' = [h EXCEPT ![t] = [found EXCEPT
                                       !.due = (m1.exp - now <= AuthMargin)]]
            /\ IF NeedsRefresh(m1)
                 THEN Call(t, "refresh_access_token", "authenticate_after_refresh")
                 ELSE Goto(t, "authenticate_test_token") /\ UNCHANGED stk
  /\ UNCHANGED <<envV, tokenFile, sessionFile, ret, att, sent, mrRes>>

\* "if not self.refresh_access_token(): return self._attempt_automatic_reauth()"
authenticate_after_refresh(t) ==
  /\ pc[t] = "authenticate_after_refresh"
  /\ IF ret[t] THEN Goto(t, "authenticate_test_token")
               ELSE Goto(t, "attempt_automatic_reauth")
  /\ UNCHANGED <<envV, filesV, mem, stk, ret, att, sent, mrRes, h>>

\* _test_token: False without a request when there is no access token,
\* otherwise whether GET /me answers 200
TestTokenAnswers(m) == IF m.at = None THEN {401} ELSE ProbeResponses

\* the count after _test_token
Tested(started, m) == IF m.at = None THEN started.nReq ELSE Sent(started)

\* "if self._test_token()": success is recorded and saved, failure leads to
\* a refresh
authenticate_test_token(t) ==
  /\ pc[t] = "authenticate_test_token"
  /\ \E r \in TestTokenAnswers(mem[InstOf(t)]) :
       LET i == InstOf(t)
           m1 == [mem[i] EXCEPT !.lsa = now, !.cnt = 0]
       IN
       IF r = 200
         THEN /\ mem' = [mem EXCEPT ![i] = m1]
              /\ sessionFile' \in save_session_data(m1)
              /\ Return(t, TRUE)
              /\ h' = [h EXCEPT ![t].probe = "ok",
                                ![t].nReq = Tested(h[t], mem[i])]
         ELSE /\ Call(t, "refresh_access_token", "authenticate_after_retry")
              /\ UNCHANGED <<mem, sessionFile, ret>>
              /\ h' = [h EXCEPT ![t].probe = "fail",
                                ![t].nReq = Tested(h[t], mem[i])]
  /\ UNCHANGED <<envV, tokenFile, backupFile, att, sent, mrRes>>

\* the refresh after a failed token test
authenticate_after_retry(t) ==
  /\ pc[t] = "authenticate_after_retry"
  /\ IF ret[t] THEN Return(t, TRUE)
               ELSE Goto(t, "attempt_automatic_reauth") /\ UNCHANGED <<stk, ret>>
  /\ UNCHANGED <<envV, filesV, mem, att, sent, mrRes, h>>

----------------------------------------------------------------------------
\* _attempt_automatic_reauth and its strategies


\* a chain that skips the client-credentials grant
AfterBackupFailed_skipping == "try_device_discovery"

\* the strategy after a failed _try_backup_tokens
AfterBackupFailed == "try_client_credentials"

\* a chain that starts over after a failed grant
AfterGrantFailed_restart == "attempt_automatic_reauth"

\* a chain that goes back to the backup after a failed grant
AfterGrantFailed_again == "try_backup_tokens"

\* the strategy after a failed _try_client_credentials
AfterGrantFailed == "try_device_discovery"

\* the value returned when all strategies have failed: "return True to
\* continue in limited mode"
ExhaustedResult == TRUE

\* guards that look at the cooldown only
ReauthRefused_cooldown_only(m) == now - m.lsa < ReauthCooldown

\* the guards before the strategies
ReauthRefused(m) ==
  \/ now - m.lsa < ReauthCooldown
  \/ m.cnt > max_auth_retries

attempt_automatic_reauth(t) ==
  /\ pc[t] = "attempt_automatic_reauth"
  /\ LET i == InstOf(t)
         m1 == [mem[i] EXCEPT !.cnt = @ + 1]
     IN
     /\ mem' = [mem EXCEPT ![i] = m1]
     /\ IF ReauthRefused(m1)
          THEN /\ Return(t, FALSE)
               /\ h' = [h EXCEPT ![t].chain = "refused",
                                 ![t].cause = h[t].lastRef]
          ELSE /\ Goto(t, "try_backup_tokens")
               /\ h' = [h EXCEPT ![t].chain = "run",
                                 ![t].cause = h[t].lastRef]
               /\ UNCHANGED <<stk, ret>>
  /\ UNCHANGED <<envV, filesV, att, sent, mrRes>>


\* a promotion that writes the tokens without their expiry
PromotedTokens_no_expiry(m) == Tokens(m.at, m.rt, 0)

\* the credential written to the token file when the backup is promoted
PromotedTokens(m) == Tokens(m.at, m.rt, m.exp)

\* _try_backup_tokens: no backup file, or an unreadable one, is a failure;
\* otherwise its tokens are loaded and tested.  A live access token is saved
\* as the main tokens (a failed write is caught: False); a dead one leads to
\* refresh_access_token, whose value is returned.
try_backup_tokens(t) ==
  /\ pc[t] = "try_backup_tokens"
  /\ LET i == InstOf(t)
         m1 == [mem[i] EXCEPT !.at = backupFile.at, !.rt = backupFile.rt,
                              !.exp = backupFile.exp]
         started == [h[t] EXCEPT !.nReq = IF backupFile.st = "ok"
                                            THEN Tested(h[t], m1) ELSE @]
     IN
     IF backupFile.st # "ok"
       THEN /\ Goto(t, AfterBackupFailed)
            /\ h' = [h EXCEPT ![t] = [started EXCEPT !.bk = "fail"]]
            /\ UNCHANGED <<mem, tokenFile, stk, ret>>
       ELSE
         /\ mem' = [mem EXCEPT ![i] = m1]
         /\ \E r \in TestTokenAnswers(m1) :
              IF r = 200 /\ diskOk
                THEN /\ tokenFile' = PromotedTokens(m1)
                     /\ Return(t, TRUE)
                     /\ h' = [h EXCEPT ![t] = [started EXCEPT !.bk = "ok",
                                 !.bkProbe = "ok", !.chain = "ok"]]
              ELSE IF r = 200
                THEN /\ tokenFile' \in {tokenFile, CorruptTokens}
                     /\ Goto(t, AfterBackupFailed)
                     /\ h' = [h EXCEPT ![t] = [started EXCEPT !.bk = "fail",
                                 !.bkProbe = "ok"]]
                     /\ UNCHANGED <<stk, ret>>
                ELSE /\ Call(t, "refresh_access_token",
                             "attempt_automatic_reauth_after_backup")
                     /\ h' = [h EXCEPT ![t] = [started EXCEPT !.bk = "run",
                                 !.bkProbe = "fail"]]
                     /\ UNCHANGED <<tokenFile, ret>>
  /\ UNCHANGED <<envV, backupFile, sessionFile, att, sent, mrRes>>

\* "if self._try_backup_tokens(): return True", for the backup's refresh
attempt_automatic_reauth_after_backup(t) ==
  /\ pc[t] = "attempt_automatic_reauth_after_backup"
  /\ IF ret[t]
       THEN /\ Return(t, TRUE)
            /\ h' = [h EXCEPT ![t].bk = "ok", ![t].chain = "ok"]
       ELSE /\ Goto(t, AfterBackupFailed)
            /\ h' = [h EXCEPT ![t].bk = "fail"]
            /\ UNCHANGED <<stk, ret>>
  /\ UNCHANGED <<envV, filesV, mem, att, sent, mrRes>>

\* a grant that leaves the refresh token held before it in place
GrantedCredential_keeping_refresh(m, g) ==
  [m EXCEPT !.at = g.at, !.exp = now + g.ein]

\* the object's credential after a 200 of the client-credentials grant
GrantedCredential(m, g) ==
  [m EXCEPT !.at = g.at, !.rt = None, !.exp = now + g.ein]

\* _try_client_credentials: a 200 sets the access token and the expiry and
\* clears the refresh token; nothing is written to a file
try_client_credentials(t) ==
  /\ pc[t] = "try_client_credentials"
  /\ \E g \in GrantResponses :
       LET i == InstOf(t)
           started == [h[t] EXCEPT !.nReq = Sent(h[t])]
       IN
       IF g.code = 200
         THEN /\ mem' = [mem EXCEPT ![i] = GrantedCredential(mem[i], g)]
              /\ Return(t, TRUE)
              /\ h' = [h EXCEPT ![t] = [started EXCEPT !.cc = "ok",
                                                       !.chain = "ok"]]
         ELSE /\ Goto(t, AfterGrantFailed)
              /\ h' = [h EXCEPT ![t] = [started EXCEPT !.cc = "fail"]]
              /\ UNCHANGED <<mem, stk, ret>>
  /\ UNCHANGED <<envV, filesV, att, sent, mrRes>>

\* _try_device_discovery: False without an access token, otherwise
\* get_devices.  With the strategy failed, _attempt_automatic_reauth has
\* no strategy left.
try_device_discovery(t) ==
  /\ pc[t] = "try_device_discovery"
  /\ IF mem[InstOf(t)].at = None
       THEN /\ Return(t, ExhaustedResult)
            /\ h' = [h EXCEPT ![t].dd = "fail", ![t].chain = "exhausted"]
       ELSE /\ Call(t, "make_request", "try_device_discovery_after")
            /\ h' = [h EXCEPT ![t].dd = "run"]
            /\ UNCHANGED ret
  /\ UNCHANGED <<envV, filesV, mem, att, sent, mrRes>>

\* the devices answer: the first active device is taken and the session
\* data saved
try_device_discovery_after(t) ==
  /\ pc[t] = "try_device_discovery_after"
  /\ LET i == InstOf(t) IN
     IF mrRes[t] = "active"
       THEN \E d \in Devices :
              /\ mem' = [mem EXCEPT ![i].dev = d]
              /\ sessionFile' \in save_session_data(mem'[i])
              /\ Return(t, TRUE)
              /\ h' = [h EXCEPT ![t].dd = "ok", ![t].chain = "ok"]
       ELSE /\ Return(t, ExhaustedResult)
            /\ h' = [h EXCEPT ![t].dd = "fail", ![t].chain = "exhausted"]
            /\ UNCHANGED <<mem, sessionFile>>
  /\ UNCHANGED <<envV, tokenFile, backupFile, att, sent, mrRes>>

----------------------------------------------------------------------------
\* Top-level calls and the environment

\* LoFiPi.run and run_without_spotify call authenticate
StartAuthenticate(t) ==
  /\ pc[t] = "idle"
  /\ calls < MaxCalls
  /\ calls' = calls + 1
  /\ mem[InstOf(t)].cnt <= MaxRetryCount
  /\ pc' = [pc EXCEPT ![t] = "authenticate"]
  /\ stk' = [stk EXCEPT ![t] = <<"idle">>]
  /\ h' = [h EXCEPT ![t] = NewHistory("auth")]
  /\ ret' = [ret EXCEPT ![t] = FALSE]
  /\ mrRes' = [mrRes EXCEPT ![t] = "none"]
  /\ UNCHANGED <<now, diskOk, svcV, filesV, mem, att, sent>>

\* a playback call (get_current_playback, pause_playback, ...) of the update
\* loop or of a button callback
StartApiRequest(t) ==
  /\ pc[t] = "idle"
  /\ calls < MaxCalls
  /\ calls' = calls + 1
  /\ pc' = [pc EXCEPT ![t] = "make_request"]
  /\ stk' = [stk EXCEPT ![t] = <<"idle">>]
  /\ h' = [h EXCEPT ![t] = NewHistory("api")]
  /\ ret' = [ret EXCEPT ![t] = FALSE]
  /\ mrRes' = [mrRes EXCEPT ![t] = "none"]
  /\ UNCHANGED <<now, diskOk, svcV, filesV, mem, att, sent>>

\* LoFiPi._check_token_health (main.py), every 120 passes of the update
\* loop: expires_at is read from the token file, and when it is at most
\* 600 s ahead and not yet past, refresh_access_token is called on the
\* player's object, with the tokens that object holds
LoFiPi_check_token_health(t) ==
  /\ pc[t] = "idle"
  /\ calls < MaxCalls
  /\ calls' = calls + 1
  /\ tokenFile.st = "ok"
  /\ tokenFile.exp - now <= MonitorMargin /\ tokenFile.exp - now > 0
  /\ pc' = [pc EXCEPT ![t] = "refresh_access_token"]
  /\ stk' = [stk EXCEPT ![t] = <<"idle">>]
  /\ h' = [h EXCEPT ![t] = NewHistory("health")]
  /\ ret' = [ret EXCEPT ![t] = FALSE]
  /\ mrRes' = [mrRes EXCEPT ![t] = "none"]
  /\ UNCHANGED <<now, diskOk, svcV, filesV, mem, att, sent>>

\* LoFiPi.run (main.py): authenticate is called; see run_after_authenticate
LoFiPi_run(t) ==
  /\ pc[t] = "idle"
  /\ calls < MaxCalls
  /\ calls' = calls + 1
  /\ pc' = [pc EXCEPT ![t] = "authenticate"]
  /\ stk' = [stk EXCEPT ![t] = <<"run_after_authenticate">>]
  /\ h' = [h EXCEPT ![t] = NewHistory("auth")]
  /\ ret' = [ret EXCEPT ![t] = FALSE]
  /\ mrRes' = [mrRes EXCEPT ![t] = "none"]
  /\ UNCHANGED <<now, diskOk, svcV, filesV, mem, att, sent>>

\* "if not self.spotify.authenticate(): return self.run_without_spotify()",
\* which starts with retry_count = 0; otherwise run_normal_mode
run_after_authenticate(t) ==
  /\ pc[t] = "run_after_authenticate"
  /\ IF ret[t] THEN Goto(t, "run_normal_mode")
               ELSE Goto(t, "run_without_spotify")
  /\ limited' = NoLimitedMode
  /\ UNCHANGED <<now, diskOk, calls, noticeFile, mgr, extWrites, exitCode,
                 printed, filesV, mem, stk, ret, att, sent, mrRes, h>>

\* "while self.running and retry_count < max_retries"
LoopRuns(count) == count < run_max_retries

\* "if retry_count % 2400 == 0"
RetryDue(count) == count % RetryPeriod = 0

\* one pass of the loop of run_without_spotify up to authenticate, or to
\* its end when authenticate is not due: retry_count += 1 and a sleep of
\* 50 ms, which the clock of the model does not resolve.  When the loop's
\* test fails the method prints "Max retries reached" and returns False.
run_without_spotify(t) ==
  /\ pc[t] = "run_without_spotify"
  /\ IF ~LoopRuns(limited.count)
       THEN /\ Goto(t, "run_without_spotify_end")
            /\ UNCHANGED <<limited, stk, h>>
     ELSE IF RetryDue(limited.count)
       THEN /\ Call(t, "authenticate", "run_without_spotify_after")
            /\ limited' = [limited EXCEPT !.attempts = @ + 1]
            /\ h' = [h EXCEPT ![t] = NewHistory("auth")]
       ELSE /\ limited' = [limited EXCEPT !.count = @ + 1]
            /\ UNCHANGED <<pc, stk, h>>
  /\ UNCHANGED <<now, diskOk, calls, noticeFile, mgr, extWrites, exitCode,
                 printed, filesV, mem, ret, att, sent, mrRes>>

\* after authenticate: success leads to run_normal_mode, failure to the
\* rest of the pass
run_without_spotify_after(t) ==
  /\ pc[t] = "run_without_spotify_after"
  /\ IF ret[t]
       THEN Goto(t, "run_normal_mode") /\ UNCHANGED limited
       ELSE /\ Goto(t, "run_without_spotify")
            /\ limited' = [limited EXCEPT !.count = @ + 1]
  /\ UNCHANGED <<now, diskOk, calls, noticeFile, mgr, extWrites, exitCode,
                 printed, filesV, mem, stk, ret, att, sent, mrRes, h>>

\* time passes
Tick ==
  /\ Idle
  /\ calls < MaxCalls
  /\ now + TimeStep <= StartTime + MaxTicks * TimeStep
  /\ now' = now + TimeStep
  /\ UNCHANGED <<diskOk, calls, svcV, filesV, mem, pc, stk, ret, att, sent,
               mrRes, h>>

\* the file system stops or starts accepting writes
DiskChange ==
  /\ Idle
  /\ calls < MaxCalls
  /\ diskOk' = ~diskOk
  /\ UNCHANGED <<now, calls, svcV, filesV, mem, pc, stk, ret, att, sent,
               mrRes, h>>

Step(t) ==
  \/ authenticate(t)
  \/ authenticate_after_refresh(t)
  \/ authenticate_test_token(t)
  \/ authenticate_after_retry(t)
  \/ attempt_automatic_reauth(t)
  \/ try_backup_tokens(t)
  \/ attempt_automatic_reauth_after_backup(t)
  \/ try_client_credentials(t)
  \/ try_device_discovery(t)
  \/ try_device_discovery_after(t)
  \/ refresh_access_token(t)
  \/ enhanced_token_refresh_send(t)
  \/ enhanced_token_refresh_recv(t)
  \/ make_request(t)
  \/ make_request_after_refresh(t)

\* one thread of control
Next ==
  \/ StartAuthenticate("main")
  \/ StartApiRequest("main")
  \/ Step("main")
  \/ Tick
  \/ DiskChange

Spec == Init /\ [][Next]_vars

\* the main thread with a button callback or the update loop as a second
\* thread of the player, on a file system that accepts writes
NextThreads ==
  \/ \E t \in PlayerThreads : StartApiRequest(t) \/ Step(t)
  \/ StartAuthenticate("main")
  \/ Tick

SpecThreads == Init /\ [][NextThreads]_vars

----------------------------------------------------------------------------
\* TokenMonitor (token_monitor.py)

\* what the monitor never changes
monV == <<now, diskOk, calls, mgr, extWrites, exitCode, printed, limited>>

\* the history of a check that a service starts now
CheckHistory(op) ==
  [NewHistory(op) EXCEPT
     !.notice0 = noticeFile,
     !.fresh0 = tokenFile.st = "ok" /\ tokenFile.exp - now > MonitorMargin]

\* "if current_time > (expires_at - 600)"
MonitorNeedsRefresh == now > tokenFile.exp - MonitorMargin

\* send_notification: the notice is written; a failed write is logged
send_notification == IF diskOk THEN TRUE ELSE noticeFile

\* cleanup_notifications: the notice is unlinked; a failed unlink is passed
cleanup_notifications == IF diskOk THEN FALSE ELSE noticeFile

\* run_check after check_token_health has returned ok
RunCheckEnd(t, ok) ==
  /\ Return(t, ok)
  /\ noticeFile' = IF ok THEN cleanup_notifications ELSE noticeFile

\* the other services are between two calls
Quiet(t) == \A u \in Threads \ {t} : pc[u] \in {"idle", "sleeping"}

\* run_check, from start_monitoring's schedule or from "--check"
StartRunCheck(t) ==
  /\ pc[t] = "idle"
  /\ Quiet(t)
  /\ calls < MaxCalls
  /\ calls' = calls + 1
  /\ pc' = [pc EXCEPT ![t] = "check_token_health"]
  /\ stk' = [stk EXCEPT ![t] = <<"idle">>]
  /\ h' = [h EXCEPT ![t] = CheckHistory("check")]
  /\ ret' = [ret EXCEPT ![t] = FALSE]
  /\ UNCHANGED <<now, diskOk, svcV, filesV, mem, att, sent, mrRes>>

\* check_token_health: no token file, and an exception while it is read,
\* return False; a credential within 600 s of its expiry is refreshed; any
\* other is tested, and refreshed when the test fails
check_token_health(t) ==
  /\ pc[t] = "check_token_health"
  /\ IF tokenFile.st # "ok"
       THEN /\ RunCheckEnd(t, FALSE)
            /\ UNCHANGED h
     ELSE IF MonitorNeedsRefresh
       THEN /\ Goto(t, "monitor_refresh_token")
            /\ h' = [h EXCEPT ![t].due = TRUE]
            /\ UNCHANGED <<stk, ret, noticeFile>>
       ELSE \E r \in ProbeResponses :
              /\ h' = [h EXCEPT
                         ![t].due = (tokenFile.exp - now <= MonitorMargin),
                         ![t].probe = IF r = 200 THEN "ok" ELSE "fail"]
              /\ IF r = 200
                   THEN RunCheckEnd(t, TRUE)
                   ELSE /\ Goto(t, "monitor_refresh_token")
                        /\ UNCHANGED <<stk, ret, noticeFile>>
  /\ UNCHANGED <<monV, filesV, mem, att, sent, mrRes>>

\* refresh_token up to refresh_access_token: a new SpotifyAPI is given the
\* token file's refresh token; an exception while the file is read returns
\* False
monitor_refresh_token(t) ==
  /\ pc[t] = "monitor_refresh_token"
  /\ IF tokenFile.st = "corrupt"
       THEN /\ RunCheckEnd(t, FALSE)
            /\ UNCHANGED mem
       ELSE /\ mem' = [mem EXCEPT
                         ![InstOf(t)] = [NewSpotifyAPI EXCEPT !.rt = tokenFile.rt]]
            /\ Call(t, "refresh_access_token", "monitor_after_refresh")
            /\ UNCHANGED <<ret, noticeFile>>
  /\ UNCHANGED <<monV, filesV, att, sent, mrRes, h>>

\* the rest of refresh_token, and of run_check: a failed refresh sends the
\* notification
monitor_after_refresh(t) ==
  /\ pc[t] = "monitor_after_refresh"
  /\ IF ret[t]
       THEN RunCheckEnd(t, TRUE)
       ELSE /\ Return(t, FALSE)
            /\ noticeFile' = send_notification
  /\ UNCHANGED <<monV, filesV, mem, att, sent, mrRes, h>>

\* the methods of SpotifyAPI that a refresh runs
RefreshStep(t) ==
  \/ refresh_access_token(t)
  \/ enhanced_token_refresh_send(t)
  \/ enhanced_token_refresh_recv(t)

MonitorStep(t) ==
  \/ check_token_health(t)
  \/ monitor_refresh_token(t)
  \/ monitor_after_refresh(t)
  \/ RefreshStep(t)

----------------------------------------------------------------------------
\* AutoTokenManager (auto_token_manager.py).  auto_token_status.json and
\* last_successful_refresh, which are written and never read, are left out.
\* Line 14 of the file joins two import statements and does not compile as
\* it stands; the model follows the class as it is written from line 17 on.

\* what the manager's own methods never change
mgrV == <<diskOk, calls, noticeFile, extWrites, exitCode, printed, limited>>

\* a classification whose margin excludes its boundary
get_token_status_strict ==
  IF tokenFile.st = "missing" THEN "no_tokens"
  ELSE IF tokenFile.st = "corrupt" THEN "error"
  ELSE IF tokenFile.exp - now <= 0 THEN "expired"
  ELSE IF tokenFile.exp - now < refresh_early_seconds THEN "expiring_soon"
  ELSE "valid"

\* get_token_status: no file, an exception while it is read, and the three
\* classes of time_until_expiry = expires_at - current_time
get_token_status ==
  IF tokenFile.st = "missing" THEN "no_tokens"
  ELSE IF tokenFile.st = "corrupt" THEN "error"
  ELSE IF tokenFile.exp - now <= 0 THEN "expired"
  ELSE IF tokenFile.exp - now <= refresh_early_seconds THEN "expiring_soon"
  ELSE "valid"


\* a loop that lengthens its sleep one failure early
SleepTime_early(fails) ==
  IF fails >= FailureThreshold THEN check_interval * BackoffFactor
                               ELSE check_interval

\* run_continuous: the sleep_time after a check
SleepTime(fails) ==
  IF fails > FailureThreshold THEN check_interval * BackoffFactor
                              ELSE check_interval

\* refresh_tokens_if_needed returns ok with consecutive_failures at fails,
\* and run_continuous, when it is the caller, chooses its sleep_time
CheckEnd(t, ok, fails) ==
  /\ Return(t, ok)
  /\ mgr' = [mgr EXCEPT !.fails = fails,
                        !.sleep = IF Head(stk[t]) = "sleeping"
                                    THEN SleepTime(fails) ELSE @,
                        !.failed = IF ok THEN 0 ELSE @ + 1]

\* a loop that does not look at self.running
LoopContinues_always(m) == TRUE

\* "while self.running:", and "if not self.running: break" of the sleep
LoopContinues(m) == m.running

\* _signal_handler, run when SIGINT or SIGTERM arrives, wherever the process
\* is: it logs and sets self.running to False
signal_handler(t) ==
  /\ mgr.running
  /\ pc[t] # "stopped"
  /\ mgr' = [mgr EXCEPT !.running = FALSE,
                        !.sigInCall = (pc[t] = "enhanced_token_refresh_recv")]
  /\ UNCHANGED <<now, mgrV, filesV, mem, pc, stk, ret, att, sent, mrRes, h>>

\* run_continuous: the sleep, if any, and the next pass of the loop
run_continuous(t) ==
  /\ pc[t] \in {"idle", "sleeping"}
  /\ LoopContinues(mgr)
  /\ Quiet(t)
  /\ mgr.checks < MaxChecks
  /\ now' = now + mgr.sleep
  /\ mgr' = [mgr EXCEPT !.checks = @ + 1]
  /\ pc' = [pc EXCEPT ![t] = "refresh_tokens_if_needed"]
  /\ stk' = [stk EXCEPT ![t] = <<"sleeping">>]
  /\ h' = [h EXCEPT ![t] =
             [NewHistory("mgr") EXCEPT
                !.notice0 = noticeFile,
                !.fresh0 = tokenFile.st = "ok"
                           /\ tokenFile.exp - (now + mgr.sleep) > MonitorMargin]]
  /\ ret' = [ret EXCEPT ![t] = FALSE]
  /\ mrRes' = [mrRes EXCEPT ![t] = "none"]
  /\ UNCHANGED <<mgrV, filesV, mem, att, sent>>

\* run_continuous leaves its loop: the sleep is broken off within a second
\* and the loop's test fails
run_continuous_exit(t) ==
  /\ pc[t] \in {"idle", "sleeping"}
  /\ ~LoopContinues(mgr)
  /\ pc' = [pc EXCEPT ![t] = "stopped"]
  /\ UNCHANGED <<now, mgr, mgrV, filesV, mem, stk, ret, att, sent, mrRes, h>>

\* refresh_tokens_if_needed up to refresh_access_token: an expired or
\* expiring credential and a missing token file lead to a refresh; any other
\* status returns True
refresh_tokens_if_needed(t) ==
  /\ pc[t] = "refresh_tokens_if_needed"
  /\ IF get_token_status \in {"expired", "expiring_soon", "no_tokens"}
       THEN /\ Call(t, "refresh_access_token", "manager_after_refresh")
            /\ UNCHANGED <<mgr, ret>>
       ELSE CheckEnd(t, TRUE, mgr.fails)
  /\ UNCHANGED <<now, mgrV, filesV, mem, att, sent, mrRes, h>>

\* after the refresh: success resets consecutive_failures; failure counts
\* and leads to _attempt_full_reauth, which builds a new SpotifyAPI and
\* calls authenticate
manager_after_refresh(t) ==
  /\ pc[t] = "manager_after_refresh"
  /\ IF ret[t]
       THEN /\ CheckEnd(t, TRUE, 0)
            /\ UNCHANGED mem
       ELSE /\ mgr' = [mgr EXCEPT !.fails = @ + 1]
            /\ mem' = [mem EXCEPT ![InstOf(t)] = NewSpotifyAPI]
            /\ Call(t, "authenticate", "manager_after_reauth")
            /\ UNCHANGED ret
  /\ UNCHANGED <<now, mgrV, filesV, att, sent, mrRes, h>>

\* after authenticate: success resets consecutive_failures, failure returns
\* False
manager_after_reauth(t) ==
  /\ pc[t] = "manager_after_reauth"
  /\ IF ret[t] THEN CheckEnd(t, TRUE, 0)
               ELSE CheckEnd(t, FALSE, mgr.fails)
  /\ UNCHANGED <<now, mgrV, filesV, mem, att, sent, mrRes, h>>

ManagerStep(t) ==
  \/ refresh_tokens_if_needed(t)
  \/ manager_after_refresh(t)
  \/ manager_after_reauth(t)
  \/ Step(t)

----------------------------------------------------------------------------
\* The commands of the two services: "auto_token_manager.py --status",
\* "auto_token_manager.py --check" and "token_monitor.py --check".
\* auto_token.log and token_monitor.log are left out.

\* a status command that opens the token file for writing
AfterRead_truncating(f) == CorruptTokens

\* get_token_status: 'with open(token_file, "r") as f: tokens = json.load(f)',
\* the token file after it has been read
AfterRead(f) == f

\* main of auto_token_manager.py with --status: the manager is built,
\* get_token_status is printed and the process ends
main_status(t) ==
  /\ pc[t] = "idle"
  /\ Quiet(t)
  /\ printed = None
  /\ mgr' = NewAutoTokenManager
  /\ mem' = [mem EXCEPT ![InstOf(t)] = NewSpotifyAPI]
  /\ printed' = get_token_status
  /\ tokenFile' = AfterRead(tokenFile)
  /\ exitCode' = [exitCode EXCEPT ![t] = "0"]
  /\ h' = [h EXCEPT ![t] = NewHistory("status")]
  /\ UNCHANGED <<now, diskOk, calls, noticeFile, extWrites, backupFile,
                 sessionFile, pc, stk, ret, att, sent, mrRes, limited>>

\* main of auto_token_manager.py with --check: the manager is built and
\* run_single_check calls refresh_tokens_if_needed
manager_main_check(t) ==
  /\ pc[t] = "idle"
  /\ Quiet(t)
  /\ calls < MaxCalls
  /\ calls' = calls + 1
  /\ mgr' = NewAutoTokenManager
  /\ mem' = [mem EXCEPT ![InstOf(t)] = NewSpotifyAPI]
  /\ pc' = [pc EXCEPT ![t] = "refresh_tokens_if_needed"]
  /\ stk' = [stk EXCEPT ![t] = <<"main_exit">>]
  /\ h' = [h EXCEPT ![t] = CheckHistory("cli")]
  /\ ret' = [ret EXCEPT ![t] = FALSE]
  /\ mrRes' = [mrRes EXCEPT ![t] = "none"]
  /\ exitCode' = [exitCode EXCEPT ![t] = None]
  /\ UNCHANGED <<now, diskOk, noticeFile, extWrites, printed, limited,
                 filesV, att, sent>>

\* main of token_monitor.py with --check: the monitor is built and
\* run_check is called
monitor_main_check(t) ==
  /\ pc[t] = "idle"
  /\ Quiet(t)
  /\ calls < MaxCalls
  /\ calls' = calls + 1
  /\ pc' = [pc EXCEPT ![t] = "check_token_health"]
  /\ stk' = [stk EXCEPT ![t] = <<"main_exit">>]
  /\ h' = [h EXCEPT ![t] = CheckHistory("cli")]
  /\ ret' = [ret EXCEPT ![t] = FALSE]
  /\ exitCode' = [exitCode EXCEPT ![t] = None]
  /\ UNCHANGED <<now, diskOk, noticeFile, mgr, extWrites, printed, limited,
                 filesV, mem, att, sent, mrRes>>

\* the exit status of a check command whose cycle returned ok: the manager's
\* main ends with "exit(0 if success else 1)"; the monitor's main drops what
\* run_check found and returns, which is status 0
ExitStatus(t, ok) ==
  IF t = "manager" THEN (IF ok THEN "0" ELSE "1") ELSE "0"

\* the end of main after the check
main_exit(t) ==
  /\ pc[t] = "main_exit"
  /\ exitCode' = [exitCode EXCEPT ![t] = ExitStatus(t, ret[t])]
  /\ pc' = [pc EXCEPT ![t] = "idle"]
  /\ UNCHANGED <<now, diskOk, calls, noticeFile, mgr, extWrites, printed,
                 limited, filesV, mem, stk, ret, att, sent, mrRes, h>>

----------------------------------------------------------------------------
\* The services with the external actor

\* a bootstrap that writes the tokens without their expiry; a reader finds 0
HeadlessTokens_no_expiry == Tokens("A1", "R1", 0)

\* exchange_code_for_tokens: access_token, refresh_token and
\* "expires_at": current_time + expires_in
HeadlessTokens == Tokens("A1", "R1", now + DefaultExpiresIn)

\* headless_spotify_auth.py: the tokens of a new authorization are written
\* to the token file and to the backup file
ExternalWrite ==
  /\ \A t \in Threads : pc[t] \in {"idle", "sleeping"}
  /\ extWrites < MaxExternalWrites
  /\ extWrites' = extWrites + 1
  /\ tokenFile' = HeadlessTokens
  /\ backupFile' = tokenFile'
  /\ UNCHANGED <<now, diskOk, calls, noticeFile, mgr, sessionFile, mem, pc,
                 stk, ret, att, sent, mrRes, h, exitCode, printed, limited>>

\* what a service finds when it starts: a session file with
\* auth_retry_count at max_auth_retries is what three successful device
\* discoveries leave, and a notice is what an earlier run of the monitor
\* leaves
InitServices ==
  /\ now = StartTime
  /\ diskOk = TRUE
  /\ tokenFile \in {NoTokens, Tokens("A1", "R1", StartTime + InitLifetime)}
  /\ backupFile = tokenFile
  /\ sessionFile \in {NoSession,
                      [st |-> "ok", dev |-> "D1", lsa |-> 0,
                       cnt |-> max_auth_retries]}
  /\ mem = [i \in Instances |-> NewSpotifyAPI]
  /\ pc = [t \in Threads |-> "idle"]
  /\ stk = [t \in Threads |-> <<>>]
  /\ ret = [t \in Threads |-> FALSE]
  /\ att = [t \in Threads |-> 0]
  /\ sent = [t \in Threads |-> None]
  /\ mrRes = [t \in Threads |-> "none"]
  /\ h = [t \in Threads |-> NewHistory("none")]
  /\ calls = 0
  /\ noticeFile \in BOOLEAN
  /\ mgr = NewAutoTokenManager
  /\ extWrites = 0
  /\ exitCode = [t \in Threads |-> None]
  /\ printed = None
  /\ limited = NoLimitedMode

\* the token monitor, with the clock and the external actor
NextMonitor ==
  \/ StartRunCheck("monitor")
  \/ MonitorStep("monitor")
  \/ ExternalWrite
  \/ Tick

SpecMonitor == InitServices /\ [][NextMonitor]_vars

\* the token manager, with the external actor
NextManager ==
  \/ run_continuous("manager")
  \/ ManagerStep("manager")
  \/ ExternalWrite

SpecManager == InitServices /\ [][NextManager]_vars

\* what the token manager may find as well: a backup next to a missing or
\* unreadable token file, and a token file without a backup
InitWriters ==
  /\ now = StartTime
  /\ diskOk = TRUE
  /\ tokenFile \in {NoTokens, CorruptTokens,
                    Tokens("A1", "R1", StartTime + InitLifetime)}
  /\ backupFile \in {NoTokens, Tokens("A1", "R1", StartTime + InitLifetime)}
  /\ sessionFile = NoSession
  /\ mem = [i \in Instances |-> NewSpotifyAPI]
  /\ pc = [t \in Threads |-> "idle"]
  /\ stk = [t \in Threads |-> <<>>]
  /\ ret = [t \in Threads |-> FALSE]
  /\ att = [t \in Threads |-> 0]
  /\ sent = [t \in Threads |-> None]
  /\ mrRes = [t \in Threads |-> "none"]
  /\ h = [t \in Threads |-> NewHistory("none")]
  /\ calls = 0
  /\ noticeFile = FALSE
  /\ mgr = NewAutoTokenManager
  /\ extWrites = 0
  /\ exitCode = [t \in Threads |-> None]
  /\ printed = None
  /\ limited = NoLimitedMode

\* the token manager and the bootstrap, from these files: every writer of
\* the token file and of the backup file takes part
SpecWriters == InitWriters /\ [][NextManager]_vars

\* the player after LoFiPi.run has authenticated with a stored credential
\* that passed _test_token: its object holds the tokens of the token file,
\* the backup and the session data have been saved
InitProcesses ==
  /\ now = StartTime
  /\ diskOk = TRUE
  /\ tokenFile = Tokens("A1", "R1", StartTime + InitLifetime)
  /\ backupFile = tokenFile
  /\ sessionFile = [st |-> "ok", dev |-> None, lsa |-> StartTime, cnt |-> 0]
  /\ mem = [i \in Instances |->
              IF i = "player"
                THEN [NewSpotifyAPI EXCEPT !.at = tokenFile.at,
                                           !.rt = tokenFile.rt,
                                           !.exp = tokenFile.exp,
                                           !.lsa = StartTime]
                ELSE NewSpotifyAPI]
  /\ pc = [t \in Threads |-> "idle"]
  /\ stk = [t \in Threads |-> <<>>]
  /\ ret = [t \in Threads |-> FALSE]
  /\ att = [t \in Threads |-> 0]
  /\ sent = [t \in Threads |-> None]
  /\ mrRes = [t \in Threads |-> "none"]
  /\ h = [t \in Threads |-> NewHistory("none")]
  /\ calls = 0
  /\ noticeFile = FALSE
  /\ mgr = NewAutoTokenManager
  /\ extWrites = 0
  /\ exitCode = [t \in Threads |-> None]
  /\ printed = None
  /\ limited = NoLimitedMode

\* two processes on the same files, each with its own SpotifyAPI object: the
\* player (main.py) and the token monitor
NextProcesses ==
  \/ StartAuthenticate("main")
  \/ StartApiRequest("main")
  \/ LoFiPi_check_token_health("main")
  \/ Step("main")
  \/ StartRunCheck("monitor")
  \/ MonitorStep("monitor")
  \/ Tick

SpecProcesses == InitProcesses /\ [][NextProcesses]_vars

\* the player from its start: LoFiPi.run and the limited mode
NextLimited ==
  \/ LoFiPi_run("main")
  \/ run_after_authenticate("main")
  \/ run_without_spotify("main")
  \/ run_without_spotify_after("main")
  \/ Step("main")
  \/ Tick
  \/ DiskChange

SpecLimited == Init /\ [][NextLimited]_vars

\* authenticate with the provider requests of the call counted
StartCountedAuthenticate(t) ==
  /\ pc[t] = "idle"
  /\ calls < MaxCalls
  /\ calls' = calls + 1
  /\ mem[InstOf(t)].cnt <= MaxRetryCount
  /\ pc' = [pc EXCEPT ![t] = "authenticate"]
  /\ stk' = [stk EXCEPT ![t] = <<"idle">>]
  /\ h' = [h EXCEPT ![t] = [NewHistory("auth") EXCEPT !.metered = TRUE]]
  /\ ret' = [ret EXCEPT ![t] = FALSE]
  /\ mrRes' = [mrRes EXCEPT ![t] = "none"]
  /\ UNCHANGED <<now, diskOk, svcV, filesV, mem, att, sent>>

\* the player before its first authenticate, with a stored credential that
\* has just run out and no session file
InitBounded ==
  /\ now = StartTime
  /\ diskOk = TRUE
  /\ tokenFile \in {NoTokens, Tokens("A1", "R1", StartTime)}
  /\ backupFile \in {NoTokens, Tokens("A1", "R1", StartTime)}
  /\ sessionFile = NoSession
  /\ mem = [i \in Instances |-> NewSpotifyAPI]
  /\ pc = [t \in Threads |-> "idle"]
  /\ stk = [t \in Threads |-> <<>>]
  /\ ret = [t \in Threads |-> FALSE]
  /\ att = [t \in Threads |-> 0]
  /\ sent = [t \in Threads |-> None]
  /\ mrRes = [t \in Threads |-> "none"]
  /\ h = [t \in Threads |-> NewHistory("none")]
  /\ calls = 0
  /\ noticeFile = FALSE
  /\ mgr = NewAutoTokenManager
  /\ extWrites = 0
  /\ exitCode = [t \in Threads |-> None]
  /\ printed = None
  /\ limited = NoLimitedMode

\* authenticate calls of the player's main thread, one after the other, on a
\* file system that accepts writes; the thread is never suspended for good,
\* and every request is answered or times out (timeout=self.request_timeout,
\* timeout=5, timeout=10)
NextBounded ==
  \/ StartCountedAuthenticate("main")
  \/ Step("main")
  \/ Tick

SpecBounded == InitBounded /\ [][NextBounded]_vars /\ WF_vars(Step("main"))

\* the commands of the token manager, run one after the other, with the
\* clock and the external actor
NextCommands ==
  \/ main_status("manager")
  \/ manager_main_check("manager")
  \/ ManagerStep("manager")
  \/ main_exit("manager")
  \/ ExternalWrite
  \/ Tick

SpecCommands == InitServices /\ [][NextCommands]_vars

\* the check command of the token monitor, with the clock and the external
\* actor
NextMonitorCommand ==
  \/ monitor_main_check("monitor")
  \/ MonitorStep("monitor")
  \/ main_exit("monitor")
  \/ ExternalWrite
  \/ Tick

SpecMonitorCommand == InitServices /\ [][NextMonitorCommand]_vars

\* the token manager with the shutdown signal.  The process is the only
\* thread of its interpreter and every request it makes has a timeout, so
\* a step that is possible is taken.
NextShutdown ==
  \/ NextManager
  \/ signal_handler("manager")
  \/ run_continuous_exit("manager")

SpecShutdown ==
  /\ InitServices /\ [][NextShutdown]_vars
  /\ WF_vars(ManagerStep("manager"))
  /\ WF_vars(run_continuous_exit("manager"))

----------------------------------------------------------------------------
\* Properties

\* the top-level call op of thread t has returned
Returned(t, op) == pc[t] = "idle" /\ h[t].op = op

\* the threads with a refresh request in flight
InFlight == {t \in Threads : pc[t] = "enhanced_token_refresh_recv"}

\* C1: concurrent triggers of a refresh lead to one token-endpoint request;
\* no second refresh request is sent while one is in flight.
C1_OneRefreshInFlight == Cardinality(InFlight) <= 1

\* C2: a validity check that finds expiresAt - now <= margin attempts a
\* refresh before it returns success (authenticate, margin 300).
C2_RefreshWithinMargin ==
  \A t \in Threads :
    (Returned(t, "auth") /\ h[t].primaryOk /\ h[t].due /\ ret[t])
      => h[t].nRat > 0

\* C3: after a successful refresh the refresh token, in memory and in the
\* token file, is the response's when the response has one and the one held
\* before otherwise, and is never empty.
C3_RotationLaw ==
  \A t \in Threads :
    h[t].lastRef = "ok" =>
      LET rt == IF h[t].respRt # None THEN h[t].respRt ELSE h[t].heldRt IN
      /\ rt # None
      /\ mem[InstOf(t)].rt = rt
      /\ tokenFile.st = "ok"
      /\ tokenFile.rt = rt

\* a refresh has succeeded on a response without a refresh token
C3_Witness ==
  /\ h["main"].lastRef = "ok"
  /\ h["main"].respRt = None
  /\ h["main"].heldRt = "R1"
  /\ tokenFile.rt = "R1"

\* C4: within one authenticate call no refresh request carries a refresh
\* token that the provider has answered with 400 in that call.
C4_NoRequestWithDeadToken ==
  \A t \in Threads :
    (h[t].op = "auth" /\ pc[t] = "enhanced_token_refresh_recv")
      => sent[t] \notin h[t].dead

\* C5: when the refresh has failed and every recovery strategy has failed,
\* authenticate returns failure.
C5_ExhaustedIsFailure ==
  \A t \in Threads :
    (Returned(t, "auth") /\ h[t].cause # "none" /\ h[t].chain = "exhausted")
      => ~ret[t]

C7_StrategyOrder ==
  \A t \in Threads :
    /\ h[t].cc # "none" => h[t].bk = "fail"
    /\ h[t].dd # "none" => h[t].bk = "fail" /\ h[t].cc = "fail"
    /\ (h[t].bk # "none" \/ h[t].cc # "none" \/ h[t].dd # "none")
         => h[t].chain \in {"run", "ok", "exhausted"}

\* the third strategy has succeeded after the first two failed
C7_Witness ==
  /\ h["main"].bk = "fail"
  /\ h["main"].cc = "fail"
  /\ h["main"].dd = "ok"

\* scenario B: the refresh was answered 400, the backup's probe failed and
\* the client-credentials grant succeeded
ScenarioB(t) ==
  /\ Returned(t, "auth")
  /\ h[t].cause = "perm"
  /\ h[t].bkProbe = "fail"
  /\ h[t].cc = "ok"

\* the SpotifyAPI object has a field that marks its credential as limited
LimitedFlag(i) == "limited" \in DOMAIN mem[i]

\* C8: scenario B ends ready, with the credential flagged as limited.
C8_LimitedIsFlagged ==
  \A t \in Threads : ScenarioB(t) => ret[t] /\ LimitedFlag(InstOf(t))

\* C9: on transient failures one refresh operation sends at most 3 requests,
\* all with the same refresh token, and then returns failure.
C9_BoundedRetries ==
  \A t \in Threads :
    /\ h[t].rq <= max_retries
    /\ h[t].rqKinds \subseteq {"trans"} => Cardinality(h[t].rqToks) <= 1
    /\ (pc[t] = "enhanced_token_refresh_send" /\ h[t].rqKinds = {"trans"})
         => h[t].rq < max_retries
    /\ h[t].lastRef = "trans" => ~h[t].lastRet

\* the third request is in flight after two transient failures
C9_Witness ==
  /\ pc["main"] = "enhanced_token_refresh_recv"
  /\ h["main"].rq = 3
  /\ h["main"].rqKinds = {"trans"}
  /\ h["main"].rqToks = {"R1"}

\* C10: a refresh that failed only transiently does not start the recovery
\* chain.
C10_TransientStartsNoRecovery ==
  \A t \in Threads : h[t].op = "auth" => h[t].cause # "trans"

\* C11: a refresh whose request was answered 200 and whose write of the token
\* file failed sends no further request and returns success.
C11_WriteFailureNonFatal ==
  \A t \in Threads :
    /\ "disk" \in h[t].rqKinds => pc[t] # "enhanced_token_refresh_send"
    /\ h[t].lastRef = "disk" => h[t].lastRet

\* C12: a write of the token file, the backup file or the session file
\* leaves the complete old record or the complete new one, never a truncated
\* file.
C12_AtomicWrites ==
  [][/\ tokenFile'.st = "corrupt" => tokenFile.st = "corrupt"
     /\ backupFile'.st = "corrupt" => backupFile.st = "corrupt"
     /\ sessionFile'.st = "corrupt" => sessionFile.st = "corrupt"]_vars

\* C14: the backup file never holds a credential that the provider has
\* rejected: an authenticate call that found no backup leaves none whose
\* refresh token was answered with 400 in that call.
C14_BackupKnownGood ==
  \A t \in Threads :
    (h[t].op = "auth" /\ h[t].primaryOk /\ ~h[t].backupOk)
      => ~(backupFile.st = "ok" /\ backupFile.rt \in h[t].dead)

\* C15: a successful authentication leaves auth_retry_count at 0.
C15_RetryCountReset ==
  \A t \in Threads :
    (Returned(t, "auth") /\ ret[t] /\ h[t].chain # "exhausted")
      => mem[InstOf(t)].cnt = 0

\* C13: while a refresh request is in flight the backup file holds the
\* credential that is current, the one whose refresh token the request
\* carries.
C13_BackupBeforeRefresh ==
  \A t \in Threads :
    pc[t] = "enhanced_token_refresh_recv"
      => backupFile.st = "ok" /\ backupFile.rt = sent[t]

\* the token manager has finished a check and sleeps
Sleeping(t) == pc[t] = "sleeping"

\* C16: after 4 failed checks in a row the manager's sleep is twice the base
\* interval and the notice exists.
C16_BackoffAndNotice ==
  (Sleeping("manager") /\ mgr.failed = FailureThreshold + 1)
    => mgr.sleep = 2 * check_interval /\ noticeFile

\* C17: a successful check of the manager leaves consecutive_failures at 0,
\* the sleep at the base interval and no notice.
C17_SuccessResets ==
  (Sleeping("manager") /\ ret["manager"])
    => mgr.fails = 0 /\ mgr.sleep = check_interval /\ ~noticeFile

\* C18: the manager's sleep is at least the base interval and at most 4
\* times the base interval, and is above the base interval only with
\* consecutive_failures above the threshold.
C18_IntervalBounds ==
  Sleeping("manager") =>
    /\ mgr.sleep >= check_interval
    /\ mgr.sleep <= 4 * check_interval
    /\ mgr.sleep > check_interval => mgr.fails > FailureThreshold

\* the manager sleeps twice the base interval after its fourth failure
C18_Witness ==
  /\ Sleeping("manager")
  /\ mgr.fails = FailureThreshold + 1
  /\ mgr.sleep = 2 * check_interval

\* C19: after a run_check of the monitor the notice exists if the check
\* failed and does not exist if it succeeded.
C19_NoticeTracksFailure ==
  Returned("monitor", "check") => (noticeFile <=> ~ret["monitor"])

\* a service has finished a check
CheckDone(t) == IF t = "manager" THEN Sleeping(t) ELSE Returned(t, "check")

\* C20: a check that starts with the notice present and a fresh credential
\* written by the external actor, which the provider accepts, succeeds and
\* leaves no notice.
C20_RecoveryClearsNotice ==
  \A t \in {"monitor", "manager"} :
    (CheckDone(t) /\ extWrites > 0 /\ h[t].notice0 /\ h[t].fresh0
       /\ h[t].probe # "fail")
      => ret[t] /\ ~noticeFile

\* C21: when a request sent by _make_request is answered 401, the next thing
\* the call does is refresh_access_token, whatever token_expires_at says:
\* a call that got a 401 is in refresh_access_token or has been through it
C21_RefreshOn401 ==
  \A t \in PlayerThreads :
    (h[t].op = "api" /\ h[t].unauth) =>
      (pc[t] = "refresh_access_token" \/ h[t].nRat >= 1)

\* a 401 for a credential the clock calls valid for longer than the margin,
\* and the refresh that followed it is in flight
C21_Witness ==
  /\ h["main"].op = "api" /\ h["main"].unauth
  /\ ~NeedsRefresh(mem["player"])
  /\ pc["main"] = "enhanced_token_refresh_recv"

\* C22: when authenticate finds a stored credential that the clock calls
\* valid and the liveness probe rejects it, a refresh is made before
\* authenticate returns, and authenticate returns success only if that
\* refresh or the recovery chain succeeded.
C22_ProbeRejectionForcesRefresh ==
  \A t \in Threads :
    (Returned(t, "auth") /\ h[t].primaryOk /\ ~h[t].due
       /\ h[t].probe = "fail")
      => /\ h[t].nRat >= 1
         /\ ret[t] => (h[t].lastRef = "ok" \/ h[t].chain = "ok")

\* C23: after a successful refresh the object holds the response's access
\* token, the retained or rotated refresh token and the expiry "time of the
\* response + expires_in", and the token file holds exactly these three.
C23_PersistedAfterRefresh ==
  \A t \in PlayerThreads :
    h[t].lastRef = "ok" =>
      LET m == mem[InstOf(t)] IN
      /\ m.at = h[t].respAt
      /\ m.rt = (IF h[t].respRt # None THEN h[t].respRt ELSE h[t].heldRt)
      /\ m.exp = h[t].respTime + h[t].respEin
      /\ tokenFile = Tokens(m.at, m.rt, m.exp)

\* a refresh succeeded with a response without a refresh token, and the
\* clock has moved on since
C23_Witness ==
  /\ h["main"].lastRef = "ok" /\ h["main"].respRt = None
  /\ tokenFile.at \in IssuedAccessTokens
  /\ now > h["main"].respTime

\* C24: while _try_device_discovery runs, no request is in flight to the
\* token endpoint.
C24_DiscoveryNoTokenRequest ==
  \A t \in Threads :
    h[t].dd = "run" => pc[t] # "enhanced_token_refresh_recv"

\* C25: within one authenticate call each recovery strategy is attempted at
\* most once, also when the chain is entered from the exception handler: a
\* strategy is entered only if the call has not attempted it, and leaving
\* it marks it attempted.
C25_StrategiesOnce ==
  [][\A t \in PlayerThreads :
       /\ (pc[t] # "try_backup_tokens" /\ pc'[t] = "try_backup_tokens")
            => h[t].bk = "none"
       /\ (pc[t] = "try_backup_tokens" /\ pc'[t] # "try_backup_tokens")
            => h'[t].bk # "none"
       /\ (pc[t] # "try_client_credentials"
             /\ pc'[t] = "try_client_credentials") => h[t].cc = "none"
       /\ (pc[t] = "try_client_credentials"
             /\ pc'[t] # "try_client_credentials") => h'[t].cc # "none"
       /\ (pc[t] # "try_device_discovery" /\ pc'[t] = "try_device_discovery")
            => h[t].dd = "none"
       /\ (pc[t] = "try_device_discovery" /\ pc'[t] # "try_device_discovery")
            => h'[t].dd # "none"]_vars

\* authenticate entered the chain from its exception handler, with an
\* unreadable token file, and has been through all three strategies
C25_Witness ==
  /\ Returned("main", "auth") /\ tokenFile.st = "corrupt"
  /\ h["main"].bk = "fail" /\ h["main"].cc = "fail" /\ h["main"].dd = "fail"

\* C26: the delay slept before the request of pass number attempt of a
\* refresh, attempt > 0, is retry_delay * 2^attempt.
C26_ExponentialBackoff ==
  \A t \in Threads :
    (pc[t] = "enhanced_token_refresh_recv" /\ att[t] > 0)
      => h[t].delay = retry_delay * 2^att[t]

\* C27: once the signal handler has set running to False, run_continuous
\* starts no new refresh_tokens_if_needed; the loop is left only between two
\* calls, so a call in progress runs to its end; and the loop is left
\* eventually.
C27_CooperativeShutdown ==
  /\ [][~mgr.running =>
          (pc'["manager"] = "refresh_tokens_if_needed"
             => pc["manager"] = "refresh_tokens_if_needed")]_vars
  /\ [][pc'["manager"] = "stopped"
          => pc["manager"] \in {"idle", "sleeping", "stopped"}]_vars
  /\ (~mgr.running) ~> (pc["manager"] = "stopped")

\* the signal arrived while a refresh request was in flight; the refresh
\* has ended and the loop has been left
C27_Witness ==
  /\ pc["manager"] = "stopped"
  /\ mgr.sigInCall
  /\ h["manager"].lastRef \in {"ok", "perm", "trans"}

\* C28: the status command changes none of the token file, the backup file,
\* the session file and the notice, and leaves no request in flight.
C28_StatusReadOnly ==
  [][printed' # printed =>
       /\ UNCHANGED <<tokenFile, backupFile, sessionFile, noticeFile>>
       /\ UNCHANGED <<pc, sent>>]_vars

\* the status of a credential close to its expiry was printed while a
\* notice was present, after a check command had run
C28_Witness ==
  /\ printed = "expiring_soon"
  /\ noticeFile
  /\ calls >= 1

\* C29: a check command exits with status 0 if its one cycle returned
\* success and with status 1 if it returned failure.
C29_ExitStatus ==
  \A t \in {"monitor", "manager"} :
    (h[t].op = "cli" /\ pc[t] = "idle" /\ exitCode[t] # None) =>
      exitCode[t] = (IF ret[t] THEN "0" ELSE "1")

\* C30: a token file or backup file that holds an access token holds an
\* expiry with it, whoever wrote it: the refresh, the promotion of the
\* backup, the backup save or the bootstrap.
C30_ExpiryPersisted ==
  \A f \in {tokenFile, backupFile} :
    f.st = "ok" => (f.at # None /\ f.exp > 0)

\* the backup was promoted during the manager's last check, and the
\* bootstrap has written both files since
C30_Witness ==
  /\ h["manager"].bk = "ok" /\ h["manager"].bkProbe = "ok"
  /\ extWrites = 1
  /\ tokenFile = backupFile /\ tokenFile.st = "ok"

\* C31: the status that get_token_status returns is no_tokens when there is
\* no token file and otherwise, for a readable file, valid when
\* now < expires_at - 600, expiring_soon when
\* expires_at - 600 <= now < expires_at, and expired when now >= expires_at.
C31_StatusClassification ==
  [][(printed' # printed /\ tokenFile.st # "corrupt") =>
       printed' =
         (IF tokenFile.st = "missing" THEN "no_tokens"
          ELSE IF now < tokenFile.exp - refresh_early_seconds THEN "valid"
          ELSE IF now < tokenFile.exp THEN "expiring_soon"
          ELSE "expired")]_vars

\* the status of a credential exactly 600 s from its expiry has been printed
C31_Witness ==
  /\ printed = "expiring_soon"
  /\ tokenFile.st = "ok"
  /\ tokenFile.exp - now = refresh_early_seconds

\* C32: a refresh request carries the refresh token that the token file
\* holds at that time, whichever process sends it.
C32_RefreshWithStoredToken ==
  \A t \in Threads :
    (pc[t] = "enhanced_token_refresh_recv" /\ tokenFile.st = "ok")
      => sent[t] = tokenFile.rt

\* C33: in limited mode authenticate is attempted again every 2400 passes
\* while it keeps failing: the loop does not give up before the pass at
\* which the first periodic attempt is due.
C33_PeriodicRetry ==
  pc["main"] = "run_without_spotify_end" => limited.count >= RetryPeriod

\* C34: the first tick of a new AutoTokenManager that finds the stored
\* credential expired or expiring soon, every refresh operation of which
\* the provider accepted, ends with a newly issued credential in the token
\* file, returns True and leaves consecutive_failures at 0.
C34_FreshManagerTick ==
  (/\ Sleeping("manager") /\ mgr.checks = 1
   /\ h["manager"].primaryOk /\ ~h["manager"].fresh0
   /\ h["manager"].lastRef \in {"norefresh", "ok"}
   /\ h["manager"].chain = "none")
    => /\ tokenFile.at \in IssuedAccessTokens
       /\ ret["manager"]
       /\ mgr.fails = 0

\* C35: a successful client-credentials grant sets the object's access token
\* and expiry, clears its refresh token and changes nothing else of the object
\* and no file; while the object holds the granted credential it has no
\* refresh token and no refresh request of its is under way, a
\* refresh_access_token call on it returns False without a request, and the
\* granted credential is replaced only by authenticate loading the token file
\* or the backup file.
C35_LimitedGrantFrame ==
  [][\A t \in PlayerThreads :
       LET i == InstOf(t)
           limitedBefore == mem[i].at \in LimitedTokens
       IN
       /\ (pc[t] = "try_client_credentials" /\ h'[t].cc = "ok")
            => /\ mem'[i].at \in LimitedTokens
               /\ mem'[i].rt = None
               /\ mem'[i].exp = now + DefaultExpiresIn
               /\ mem'[i] = [mem[i] EXCEPT !.at = mem'[i].at, !.rt = None,
                                          !.exp = mem'[i].exp]
               /\ UNCHANGED filesV
       /\ limitedBefore
            => /\ mem[i].rt = None
               /\ pc[t] \notin {"enhanced_token_refresh_send",
                                "enhanced_token_refresh_recv"}
       /\ (limitedBefore /\ pc[t] = "refresh_access_token")
            => /\ ret'[t] = FALSE
               /\ pc'[t] = Head(stk[t])
               /\ h'[t].rq = 0
               /\ UNCHANGED <<mem, filesV>>
       /\ (limitedBefore /\ pc'[t] # pc[t] /\ mem'[i].at # mem[i].at)
            => \/ pc[t] = "authenticate" /\ tokenFile.st = "ok"
                  /\ mem'[i].rt = tokenFile.rt
               \/ pc[t] = "try_backup_tokens" /\ backupFile.st = "ok"
                  /\ mem'[i].rt = backupFile.rt
       /\ (limitedBefore /\ mem'[i] # mem[i])
            => \E u \in PlayerThreads : pc'[u] # pc[u]
    ]_vars

\* a request got 401 on an object holding a granted credential, and the
\* refresh it asked for was refused for want of a refresh token
C35_Witness ==
  /\ mem["player"].at \in LimitedTokens
  /\ h["main"].op = "api"
  /\ h["main"].nRat = 1
  /\ h["main"].lastRef = "norefresh"

\* C36: every _attempt_automatic_reauth call adds exactly one to
\* auth_retry_count; when fewer than 300 seconds have passed since
\* last_successful_auth, or the increased count is above max_auth_retries, the
\* call returns False at once: no strategy runs, no request is sent, and
\* neither the object's credential nor any file changes.
C36_ReauthGuards ==
  [][\A t \in Threads :
       LET i == InstOf(t)
           increased == mem[i].cnt + 1
       IN
       (pc[t] = "attempt_automatic_reauth" /\ pc'[t] # pc[t])
         => /\ mem'[i].cnt = increased
            /\ (\/ now - mem[i].lsa < 300
                \/ increased > 3)
                 => /\ ret'[t] = FALSE
                    /\ pc'[t] = Head(stk[t])
                    /\ stk'[t] = Tail(stk[t])
                    /\ mem'[i] = [mem[i] EXCEPT !.cnt = increased]
                    /\ UNCHANGED <<filesV, sent, att>>
                    /\ h'[t].bk = h[t].bk /\ h'[t].cc = h[t].cc
                    /\ h'[t].dd = h[t].dd
                    /\ h'[t].nRat = h[t].nRat /\ h'[t].nApi = h[t].nApi
                    /\ h'[t].rqKinds = h[t].rqKinds
    ]_vars

\* a call refused for its count alone, the cooldown being over
C36_Witness ==
  \E t \in Threads :
    /\ h[t].chain = "refused"
    /\ mem[InstOf(t)].cnt > max_auth_retries
    /\ now - mem[InstOf(t)].lsa >= ReauthCooldown
    /\ pc[t] # "attempt_automatic_reauth"

\* C37: every authenticate call comes to its end, and up to there it has
\* made at most four refresh operations of at most max_retries token-endpoint
\* requests each, two liveness probes, one client-credentials request and
\* two requests of _make_request.
C37_BoundedAuthenticate ==
  /\ [](\A t \in PlayerThreads :
          h[t].metered
            => /\ h[t].nRat <= 4
               /\ h[t].rq <= max_retries
               /\ h[t].nApi <= 2
               /\ h[t].nReq <= 4 * max_retries + 5)
  /\ (pc["main"] = "authenticate") ~> (pc["main"] = "idle")

\* an authenticate call that ended after three full refresh operations, both
\* probes, the grant request and both requests of _make_request
C37_Witness ==
  /\ pc["main"] = "idle"
  /\ h["main"].metered
  /\ h["main"].nRat = 3
  /\ h["main"].nApi = 2
  /\ h["main"].nReq = 3 * max_retries + 5

\* C38: one _make_request call sends its request at most twice and calls
\* refresh_access_token at most once, and only after a 401; it sends the
\* request a second time exactly when that refresh returned True; a second
\* 401 ends the call with None, without another refresh or request.
C38_OneRefreshOneResend ==
  \A t \in PlayerThreads :
    h[t].op = "api"
      => /\ h[t].nApi <= 2
         /\ h[t].nRat <= 1
         /\ h[t].nRat = 1 => h[t].unauth
         /\ h[t].nApi = 2 => (h[t].nRat = 1 /\ h[t].lastRet)
         /\ (pc[t] = "idle" /\ h[t].nRat = 1)
              => h[t].nApi = (IF h[t].lastRet THEN 2 ELSE 1)
         /\ (pc[t] = "idle" /\ h[t].nRat = 1 /\ ~h[t].lastRet)
              => (mrRes[t] = "none" /\ ~ret[t])
         /\ h[t].unauth2
              => /\ pc[t] = "idle"
                 /\ h[t].nApi = 2
                 /\ mrRes[t] = "none"
                 /\ ~ret[t]

\* a call whose request was answered 401 before and after a refresh that
\* succeeded
C38_Witness ==
  /\ h["main"].op = "api"
  /\ h["main"].unauth2
  /\ h["main"].lastRef = "ok"
  /\ h["main"].nApi = 2

====
